---- MODULE Spec2Model ----
(***************************************************************************)
(* The instrumented sorting engines of sorting_demo.py (six sorts that     *)
(* return the sorted list and a metrics record) and visualize_sorting.py   *)
(* (five *_steps sorts that return the sorted list and a trace of steps),  *)
(* as one state machine.  A behaviour is one call: Init draws the          *)
(* algorithm and the caller's list, Call enters the function, every later  *)
(* action is one basic block of the function's body, Return leaves it.     *)
(*                                                                         *)
(* Python lists are 0-based; the sequences here are 1-based, so a[n] of    *)
(* the source is At(a, n).  Every element of the working list carries the  *)
(* position it had in the input (<<key, position>>); the code compares     *)
(* keys only, the position is carried along by every move.                 *)
(***************************************************************************)
EXTENDS Integers, Sequences, FiniteSets, TLC

\* Bounds of the model: inputs are the lists of at most MaxLen values of 1..MaxVal.
MaxLen == 4
MaxVal == 3

\* The input of the end-to-end example.
Example == <<5, 3, 8, 3, 1>>

VARIABLES
    alg,        \* the function called
    arr,        \* the caller's list
    a,          \* the working list of the call
    pc,         \* the position in the function's body
    i, j,       \* the loop indices of the source
    key,        \* insertion: key; quick: pivot
    min_idx,    \* selection: min_idx; heap: swap_idx
    swapped,    \* bubble_sort: swapped
    root,       \* heap_sort._sift_down: root
    end_idx,    \* heap_sort._sift_down: end_idx
    merged,     \* merge: the list merged
    k,          \* merge_sort_steps: the index of the write-back loop
    ret,        \* merge_sort: the list the last inner call returned
    stack,      \* the frames of the recursive calls, innermost first
    metrics,    \* the metrics record (comparisons, swaps)
    steps,      \* the trace of a *_steps sort
    result,     \* the first component of the value returned
    hist,       \* history of the call: what held when _partition or _merge was
                \* entered, and the swaps of heap_sort by kind
    bench       \* the state of run_benchmarks

vars == <<alg, arr, a, pc, i, j, key, min_idx, swapped, root, end_idx,
          merged, k, ret, stack, metrics, steps, result, hist, bench>>

MetricsSorts == {"bubble_sort", "insertion_sort", "selection_sort",
                 "merge_sort", "quick_sort", "heap_sort"}
TracedSorts  == {"bubble_sort_steps", "insertion_sort_steps",
                 "selection_sort_steps", "merge_sort_steps", "quick_sort_steps"}
Algorithms   == MetricsSorts \cup TracedSorts

SeqsUpTo(S, n) == UNION {[1..m -> S] : m \in 0..n}
Inputs == SeqsUpTo(1..MaxVal, MaxLen) \cup {Example}

----------------------------------------------------------------------------
\* Lists

Key(e)   == e[1]
Tag(s)   == [p \in 1..Len(s) |-> <<s[p], p>>]
Keys(s)  == [p \in 1..Len(s) |-> Key(s[p])]
At(s, n) == s[n + 1]
Put(s, n, v)  == [s EXCEPT ![n + 1] = v]
Swap(s, x, y) == [s EXCEPT ![x + 1] = s[y + 1], ![y + 1] = s[x + 1]]
\* The indices a subscript may take without leaving the list.
Valid(s, S) == \A n \in S : 0 <= n /\ n < Len(s)

\* a = list(arr) / a = arr.copy(): the working list is a new list, not the caller's.
AliasedBug(g) == TRUE
Aliased(g) == FALSE

\* A write to the working list reaches the caller's list only when they are one list.
SetA(new) ==
    /\ a' = new
    /\ arr' = IF Aliased(alg) THEN Keys(new) ELSE arr

\* _make_metrics (without the wall-clock field)
MakeMetrics == [comparisons |-> 0, swaps |-> 0]
\* metrics["comparisons"] += 1
ComparedBug(m) == m
Compared(m) == [m EXCEPT !.comparisons = @ + 1]
\* metrics["swaps"] += 1
ExchangedBug(m) == m
Exchanged(m) == [m EXCEPT !.swaps = @ + 1]

\* _record: appends copies of the list and of the highlights.  kind names the call
\* site: "boundary", "compare" (at an ordering test), "exchange" (after a swap, shift
\* or write-back) or "mark".  shared tells a step that holds the working list itself.
RecordBug(st, s, hl, kind) ==
    Append(st, [snap |-> Keys(s), hl |-> hl, kind |-> kind, shared |-> TRUE])
Record(st, s, hl, kind) ==
    Append(st, [snap |-> Keys(s), hl |-> hl, kind |-> kind, shared |-> FALSE])

\* What a reader of the trace sees in a step's first component.
Snapshot(s) == IF s.shared THEN Keys(a) ELSE s.snap

n == Len(a)

\* An access outside the list: IndexError (or a wrap-around of a negative subscript).
Fault ==
    /\ pc' = "fault"
    /\ UNCHANGED <<alg, arr, a, i, j, key, min_idx, swapped, root, end_idx,
                   merged, k, ret, stack, metrics, steps, result>>

----------------------------------------------------------------------------
\* The traced counterpart of a metrics sort; heap_sort has none.
HasTwin(g) == g \in {"bubble_sort", "insertion_sort", "selection_sort",
                     "merge_sort", "quick_sort"}
Twin(g) ==
    CASE g = "bubble_sort"    -> "bubble_sort_steps"
      [] g = "insertion_sort" -> "insertion_sort_steps"
      [] g = "selection_sort" -> "selection_sort_steps"
      [] g = "merge_sort"     -> "merge_sort_steps"
      [] g = "quick_sort"     -> "quick_sort_steps"

\* The history of a call that has not begun.
NoHist == [m0 |-> [comparisons |-> 0, swaps |-> 0], a0 |-> <<>>,
           extractions |-> 0, exchanges |-> 0]

\* The caller takes a list and a metrics sort; once the sort has returned it calls
\* the traced counterpart on the same list, still holding the metrics it was given.
Init ==
    /\ alg \in MetricsSorts
    /\ arr \in Inputs
    /\ a = <<>>
    /\ pc = "call"
    /\ i = 0 /\ j = 0 /\ key = <<0, 0>> /\ min_idx = 0
    /\ swapped = FALSE /\ root = 0 /\ end_idx = 0
    /\ merged = <<>> /\ k = 0 /\ ret = <<>> /\ stack = <<>>
    /\ metrics = MakeMetrics
    /\ steps = <<>>
    /\ result = <<>>
    /\ hist = NoHist
    /\ bench = [pc |-> "idle"]

\* The first position of each function's body.
Entry(g) == g

\* The first value of the outer loop's index: range(1, len(a)) in the insertion
\* sorts, range((n - 2) // 2, -1, -1) in heap_sort, range(n) elsewhere.
HeapFirstBug(len) == (len - 3) \div 2
HeapFirst(len) == (len - 2) \div 2
FirstIndex(g, len) ==
    IF g \in {"insertion_sort", "insertion_sort_steps"} THEN 1
    ELSE IF g = "heap_sort" THEN HeapFirst(len)
    ELSE 0

\* The frames of the recursive functions.  at is the position of the call in its
\* body: "entry", "left" (in its first inner call), "right" (in its second), "merge".
QuickFrame(lo, hi) == [lo |-> lo, hi |-> hi, p |-> 0, at |-> "entry"]
MergeStepsFrame(left, right) == [left |-> left, right |-> right, mid |-> 0, at |-> "entry"]
MergeFrame(lst) == [a |-> lst, left |-> <<>>, right |-> <<>>, at |-> "entry"]

\* The outermost call: _quick(0, len(a) - 1), _merge_sort(a, 0, len(a)),
\* _merge_sort(list(arr)).
FirstStack(g, lst) ==
    IF g \in {"quick_sort", "quick_sort_steps"} THEN <<QuickFrame(0, Len(lst) - 1)>>
    ELSE IF g = "merge_sort_steps" THEN <<MergeStepsFrame(0, Len(lst))>>
    ELSE IF g = "merge_sort" THEN <<MergeFrame(lst)>>
    ELSE <<>>

top == Head(stack)
Push(f, st) == <<f>> \o st
\* The innermost call returns; the outermost one returns to the function's last lines.
PopFrame ==
    /\ stack' = Tail(stack)
    /\ pc' = IF Len(stack) = 1 THEN "return" ELSE alg

\* steps = []; _record(steps, a, []) at the head of a traced sort
FirstSteps(g, s) ==
    IF g \in TracedSorts THEN Record(<<>>, s, <<>>, "boundary") ELSE <<>>

\* _record(steps, a, []) before a traced sort returns
LastStepsBug(g, st, s) == st
LastSteps(g, st, s) ==
    IF g \in TracedSorts THEN Record(st, s, <<>>, "boundary") ELSE st

\* Entering the function: the metrics record or the trace is created, the input copied.
Call ==
    /\ pc = "call"
    /\ a' = Tag(arr)
    /\ metrics' = IF alg \in MetricsSorts THEN MakeMetrics ELSE metrics
    /\ steps' = FirstSteps(alg, Tag(arr))
    /\ i' = FirstIndex(alg, Len(arr))
    /\ stack' = FirstStack(alg, Tag(arr))
    /\ pc' = Entry(alg)
    /\ UNCHANGED <<alg, arr, j, key, min_idx, swapped, root, end_idx,
                   merged, k, ret, result>>

\* Leaving the function: the trailing boundary step, then return a (sorted_list in
\* merge_sort) and the metrics or the steps.
Return ==
    /\ pc = "return"
    /\ steps' = LastSteps(alg, steps, a)
    /\ result' = IF alg = "merge_sort" THEN ret ELSE a
    /\ pc' = "done"
    /\ UNCHANGED <<alg, arr, a, i, j, key, min_idx, swapped, root, end_idx,
                   merged, k, ret, stack, metrics>>

\* The caller's next call: the traced counterpart, on the same list.
NextCall ==
    /\ pc = "done"
    /\ HasTwin(alg)
    /\ alg' = Twin(alg)
    /\ pc' = "call"
    /\ a' = <<>>
    /\ i' = 0 /\ j' = 0 /\ key' = <<0, 0>> /\ min_idx' = 0
    /\ swapped' = FALSE /\ root' = 0 /\ end_idx' = 0
    /\ merged' = <<>> /\ k' = 0 /\ ret' = <<>> /\ stack' = <<>>
    /\ steps' = <<>>
    /\ result' = <<>>
    /\ UNCHANGED <<arr, metrics>>

----------------------------------------------------------------------------
\* bubble_sort

BubbleInnerStopBug(len, pass) == len - pass
BubbleInnerStopShort(len, pass) == len - pass - 2
BubbleInnerStop(len, pass) == len - pass - 1

\* for i in range(n): swapped = False
BubbleOuter ==
    /\ pc = "bubble_sort"
    /\ IF i < n
       THEN /\ swapped' = FALSE /\ j' = 0 /\ pc' = "bubble_inner"
       ELSE /\ pc' = "return" /\ UNCHANGED <<swapped, j>>
    /\ UNCHANGED <<alg, arr, a, i, key, min_idx, root, end_idx,
                   merged, k, ret, stack, metrics, steps, result>>

\* if a[j] > a[j + 1]
OutOfOrderBug(x, y) == Key(x) >= Key(y)
OutOfOrder(x, y) == Key(x) > Key(y)

\* for j in range(0, n - i - 1): one comparison, and the swap it asks for
BubbleInner ==
    /\ pc = "bubble_inner"
    /\ j < BubbleInnerStop(n, i)
    /\ IF Valid(a, {j, j + 1})
       THEN /\ IF OutOfOrder(At(a, j), At(a, j + 1))
               THEN /\ SetA(Swap(a, j, j + 1))
                    /\ metrics' = Exchanged(Compared(metrics))
                    /\ swapped' = TRUE
               ELSE /\ metrics' = Compared(metrics)
                    /\ UNCHANGED <<a, arr, swapped>>
            /\ j' = j + 1
            /\ UNCHANGED <<alg, pc, i, key, min_idx, root, end_idx,
                           merged, k, ret, stack, steps, result>>
       ELSE Fault

\* if not swapped: break
BreaksBug(sw) == FALSE
Breaks(sw) == ~sw

\* the end of a pass: the early exit, or the next pass
BubblePassEnd ==
    /\ pc = "bubble_inner"
    /\ j >= BubbleInnerStop(n, i)
    /\ IF Breaks(swapped)
       THEN /\ pc' = "return" /\ UNCHANGED i
       ELSE /\ i' = i + 1 /\ pc' = "bubble_sort"
    /\ UNCHANGED <<alg, arr, a, j, key, min_idx, swapped, root, end_idx,
                   merged, k, ret, stack, metrics, steps, result>>

----------------------------------------------------------------------------
\* bubble_sort_steps

BubbleStepsOuter ==
    /\ pc = "bubble_sort_steps"
    /\ IF i < n
       THEN /\ j' = 0 /\ pc' = "bubble_steps_inner"
       ELSE /\ pc' = "return" /\ UNCHANGED j
    /\ UNCHANGED <<alg, arr, a, i, key, min_idx, swapped, root, end_idx,
                   merged, k, ret, stack, metrics, steps, result>>

\* _record(steps, a, [j, j+1]); if a[j] > a[j+1]:
BubbleStepsCompare ==
    /\ pc = "bubble_steps_inner"
    /\ j < n - i - 1
    /\ IF Valid(a, {j, j + 1})
       THEN /\ steps' = Record(steps, a, <<j, j + 1>>, "compare")
            /\ IF Key(At(a, j)) > Key(At(a, j + 1))
               THEN /\ pc' = "bubble_steps_swap" /\ UNCHANGED j
               ELSE /\ j' = j + 1 /\ UNCHANGED pc
            /\ UNCHANGED <<alg, arr, a, i, key, min_idx, swapped, root, end_idx,
                           merged, k, ret, stack, metrics, result>>
       ELSE Fault

\* a[j], a[j+1] = a[j+1], a[j]; _record(steps, a, [j, j+1])
BubbleStepsSwap ==
    /\ pc = "bubble_steps_swap"
    /\ SetA(Swap(a, j, j + 1))
    /\ steps' = Record(steps, a', <<j, j + 1>>, "exchange")
    /\ j' = j + 1
    /\ pc' = "bubble_steps_inner"
    /\ UNCHANGED <<alg, i, key, min_idx, swapped, root, end_idx,
                   merged, k, ret, stack, metrics, result>>

BubbleStepsPassEnd ==
    /\ pc = "bubble_steps_inner"
    /\ j >= n - i - 1
    /\ i' = i + 1
    /\ pc' = "bubble_sort_steps"
    /\ UNCHANGED <<alg, arr, a, j, key, min_idx, swapped, root, end_idx,
                   merged, k, ret, stack, metrics, steps, result>>

----------------------------------------------------------------------------
\* insertion_sort

\* for i in range(1, len(a)): key = a[i]; j = i - 1
InsertionOuter ==
    /\ pc = "insertion_sort"
    /\ IF i < n
       THEN IF Valid(a, {i})
            THEN /\ key' = At(a, i) /\ j' = i - 1 /\ pc' = "insertion_scan"
                 /\ UNCHANGED <<alg, arr, a, i, min_idx, swapped, root, end_idx,
                                merged, k, ret, stack, metrics, steps, result>>
            ELSE Fault
       ELSE /\ pc' = "return"
            /\ UNCHANGED <<alg, arr, a, i, j, key, min_idx, swapped, root, end_idx,
                           merged, k, ret, stack, metrics, steps, result>>

\* j -= 1 after a shift
ScanNext(pos) == pos - 1

\* if a[j] > key
ShiftTestBug(x, y) == Key(x) >= Key(y)
ShiftTest(x, y) == Key(x) > Key(y)

\* while j >= 0: one test, counted; a shift when a[j] > key, else break
InsertionScan ==
    /\ pc = "insertion_scan"
    /\ j >= 0
    /\ IF Valid(a, {j})
       THEN IF ShiftTest(At(a, j), key)
            THEN IF Valid(a, {j + 1})
                 THEN /\ SetA(Put(a, j + 1, At(a, j)))
                      /\ metrics' = Exchanged(Compared(metrics))
                      /\ j' = ScanNext(j)
                      /\ UNCHANGED <<alg, pc, i, key, min_idx, swapped, root,
                                     end_idx, merged, k, ret, stack, steps, result>>
                 ELSE Fault
            ELSE /\ metrics' = Compared(metrics)
                 /\ pc' = "insertion_place"
                 /\ UNCHANGED <<alg, arr, a, i, j, key, min_idx, swapped, root,
                                end_idx, merged, k, ret, stack, steps, result>>
       ELSE Fault

\* the scan reached j = -1
InsertionScanEnd ==
    /\ pc = "insertion_scan"
    /\ j < 0
    /\ pc' = "insertion_place"
    /\ UNCHANGED <<alg, arr, a, i, j, key, min_idx, swapped, root, end_idx,
                   merged, k, ret, stack, metrics, steps, result>>

\* a[j + 1] = key
InsertionPlace ==
    /\ pc = "insertion_place"
    /\ IF Valid(a, {j + 1})
       THEN /\ SetA(Put(a, j + 1, key))
            /\ i' = i + 1
            /\ pc' = "insertion_sort"
            /\ UNCHANGED <<alg, j, key, min_idx, swapped, root, end_idx,
                           merged, k, ret, stack, metrics, steps, result>>
       ELSE Fault

----------------------------------------------------------------------------
\* insertion_sort_steps

\* for i in range(1, len(a)): key = a[i]; j = i - 1; _record(steps, a, [i])
InsStepsOuter ==
    /\ pc = "insertion_sort_steps"
    /\ IF i < n
       THEN IF Valid(a, {i})
            THEN /\ key' = At(a, i) /\ j' = i - 1
                 /\ steps' = Record(steps, a, <<i>>, "mark")
                 /\ pc' = "ins_steps_scan"
                 /\ UNCHANGED <<alg, arr, a, i, min_idx, swapped, root, end_idx,
                                merged, k, ret, stack, metrics, result>>
            ELSE Fault
       ELSE /\ pc' = "return"
            /\ UNCHANGED <<alg, arr, a, i, j, key, min_idx, swapped, root, end_idx,
                           merged, k, ret, stack, metrics, steps, result>>

\* while j >= 0 and a[j] > key
InsStepsTest == j >= 0 /\ Key(At(a, j)) > Key(key)

\* the test holds: _record(steps, a, [j, j+1])
InsStepsCompare ==
    /\ pc = "ins_steps_scan"
    /\ j >= 0 => Valid(a, {j})
    /\ InsStepsTest
    /\ steps' = Record(steps, a, <<j, j + 1>>, "compare")
    /\ pc' = "ins_steps_shift"
    /\ UNCHANGED <<alg, arr, a, i, j, key, min_idx, swapped, root, end_idx,
                   merged, k, ret, stack, metrics, result>>

\* a[j+1] = a[j]; _record(steps, a, [j, j+1]); j -= 1
InsStepsShift ==
    /\ pc = "ins_steps_shift"
    /\ IF Valid(a, {j, j + 1})
       THEN /\ SetA(Put(a, j + 1, At(a, j)))
            /\ steps' = Record(steps, a', <<j, j + 1>>, "exchange")
            /\ j' = j - 1
            /\ pc' = "ins_steps_scan"
            /\ UNCHANGED <<alg, i, key, min_idx, swapped, root, end_idx,
                           merged, k, ret, stack, metrics, result>>
       ELSE Fault

\* the test fails: a[j+1] = key; _record(steps, a, [j+1])
InsStepsPlace ==
    /\ pc = "ins_steps_scan"
    /\ (j >= 0 /\ ~Valid(a, {j})) \/ ~InsStepsTest
    /\ IF (j >= 0 => Valid(a, {j})) /\ Valid(a, {j + 1})
       THEN /\ SetA(Put(a, j + 1, key))
            /\ steps' = Record(steps, a', <<j + 1>>, "mark")
            /\ i' = i + 1
            /\ pc' = "insertion_sort_steps"
            /\ UNCHANGED <<alg, j, key, min_idx, swapped, root, end_idx,
                           merged, k, ret, stack, metrics, result>>
       ELSE Fault

----------------------------------------------------------------------------
\* selection_sort

\* range(i + 1, n): the first candidate of a pass
FirstCandidateBug(pass) == pass
FirstCandidate(pass) == pass + 1

\* for i in range(n): min_idx = i
SelectionOuter ==
    /\ pc = "selection_sort"
    /\ IF i < n
       THEN /\ min_idx' = i /\ j' = FirstCandidate(i) /\ pc' = "selection_inner"
       ELSE /\ pc' = "return" /\ UNCHANGED <<min_idx, j>>
    /\ UNCHANGED <<alg, arr, a, i, key, swapped, root, end_idx,
                   merged, k, ret, stack, metrics, steps, result>>

\* for j in range(i + 1, n): one comparison with the current minimum
SelectionInner ==
    /\ pc = "selection_inner"
    /\ j < n
    /\ IF Valid(a, {j, min_idx})
       THEN /\ metrics' = Compared(metrics)
            /\ min_idx' = IF Key(At(a, j)) < Key(At(a, min_idx)) THEN j ELSE min_idx
            /\ j' = j + 1
            /\ UNCHANGED <<alg, arr, a, pc, i, key, swapped, root, end_idx,
                           merged, k, ret, stack, steps, result>>
       ELSE Fault

\* if min_idx != i: swap
SelectionPassEnd ==
    /\ pc = "selection_inner"
    /\ j >= n
    /\ IF min_idx # i
       THEN IF Valid(a, {i, min_idx})
            THEN /\ SetA(Swap(a, i, min_idx))
                 /\ metrics' = Exchanged(metrics)
                 /\ i' = i + 1
                 /\ pc' = "selection_sort"
                 /\ UNCHANGED <<alg, j, key, min_idx, swapped, root, end_idx,
                                merged, k, ret, stack, steps, result>>
            ELSE Fault
       ELSE /\ i' = i + 1
            /\ pc' = "selection_sort"
            /\ UNCHANGED <<alg, arr, a, j, key, min_idx, swapped, root, end_idx,
                           merged, k, ret, stack, metrics, steps, result>>

----------------------------------------------------------------------------
\* selection_sort_steps

SelStepsOuter ==
    /\ pc = "selection_sort_steps"
    /\ IF i < n
       THEN /\ min_idx' = i /\ j' = i + 1 /\ pc' = "sel_steps_inner"
       ELSE /\ pc' = "return" /\ UNCHANGED <<min_idx, j>>
    /\ UNCHANGED <<alg, arr, a, i, key, swapped, root, end_idx,
                   merged, k, ret, stack, metrics, steps, result>>

\* _record(steps, a, [min_idx, j]); if a[j] < a[min_idx]:
SelStepsCompare ==
    /\ pc = "sel_steps_inner"
    /\ j < n
    /\ IF Valid(a, {j, min_idx})
       THEN /\ steps' = Record(steps, a, <<min_idx, j>>, "compare")
            /\ IF Key(At(a, j)) < Key(At(a, min_idx))
               THEN /\ pc' = "sel_steps_newmin" /\ UNCHANGED j
               ELSE /\ j' = j + 1 /\ UNCHANGED pc
            /\ UNCHANGED <<alg, arr, a, i, key, min_idx, swapped, root, end_idx,
                           merged, k, ret, stack, metrics, result>>
       ELSE Fault

\* min_idx = j; _record(steps, a, [min_idx])
SelStepsNewMin ==
    /\ pc = "sel_steps_newmin"
    /\ min_idx' = j
    /\ steps' = Record(steps, a, <<j>>, "mark")
    /\ j' = j + 1
    /\ pc' = "sel_steps_inner"
    /\ UNCHANGED <<alg, arr, a, i, key, swapped, root, end_idx,
                   merged, k, ret, stack, metrics, result>>

\* if min_idx != i: swap; _record(steps, a, [i, min_idx])
SelStepsPassEnd ==
    /\ pc = "sel_steps_inner"
    /\ j >= n
    /\ IF min_idx # i
       THEN IF Valid(a, {i, min_idx})
            THEN /\ SetA(Swap(a, i, min_idx))
                 /\ steps' = Record(steps, a', <<i, min_idx>>, "exchange")
                 /\ i' = i + 1
                 /\ pc' = "selection_sort_steps"
                 /\ UNCHANGED <<alg, j, key, min_idx, swapped, root, end_idx,
                                merged, k, ret, stack, metrics, result>>
            ELSE Fault
       ELSE /\ i' = i + 1
            /\ pc' = "selection_sort_steps"
            /\ UNCHANGED <<alg, arr, a, j, key, min_idx, swapped, root, end_idx,
                           merged, k, ret, stack, metrics, steps, result>>

----------------------------------------------------------------------------
\* quick_sort

\* _quick(lo, hi) with lo < hi enters _partition: pivot = a[hi]; i = lo
QuickEnter ==
    /\ pc = "quick_sort"
    /\ top.at = "entry"
    /\ top.lo < top.hi
    /\ IF Valid(a, {top.hi})
       THEN /\ key' = At(a, top.hi)
            /\ i' = top.lo
            /\ j' = top.lo
            /\ pc' = "quick_partition"
            /\ UNCHANGED <<alg, arr, a, min_idx, swapped, root, end_idx,
                           merged, k, ret, stack, metrics, steps, result>>
       ELSE Fault

\* _quick(lo, hi) with lo >= hi returns at once
QuickBase ==
    /\ pc = "quick_sort"
    /\ top.at = "entry"
    /\ ~(top.lo < top.hi)
    /\ PopFrame
    /\ UNCHANGED <<alg, arr, a, i, j, key, min_idx, swapped, root, end_idx,
                   merged, k, ret, metrics, steps, result>>

\* for j in range(lo, hi): one comparison with the pivot, and the swap it asks for
QuickPartition ==
    /\ pc = "quick_partition"
    /\ j < top.hi
    /\ IF Valid(a, {j})
       THEN IF Key(At(a, j)) < Key(key)
            THEN IF Valid(a, {i})
                 THEN /\ SetA(Swap(a, i, j))
                      /\ metrics' = Exchanged(Compared(metrics))
                      /\ i' = i + 1
                      /\ j' = j + 1
                      /\ UNCHANGED <<alg, pc, key, min_idx, swapped, root, end_idx,
                                     merged, k, ret, stack, steps, result>>
                 ELSE Fault
            ELSE /\ metrics' = Compared(metrics)
                 /\ j' = j + 1
                 /\ UNCHANGED <<alg, arr, a, pc, i, key, min_idx, swapped, root,
                                end_idx, merged, k, ret, stack, steps, result>>
       ELSE Fault

\* metrics["swaps"] += 1 after a[i], a[hi] = a[hi], a[i], whatever i is
PivotSwappedBug(m, x, y) == IF x # y THEN Exchanged(m) ELSE m
PivotSwapped(m, x, y) == Exchanged(m)

\* a[i], a[hi] = a[hi], a[i]; return i; then _quick(lo, p - 1)
QuickPivotSwap ==
    /\ pc = "quick_partition"
    /\ j >= top.hi
    /\ IF Valid(a, {i, top.hi})
       THEN /\ SetA(Swap(a, i, top.hi))
            /\ metrics' = PivotSwapped(metrics, i, top.hi)
            /\ stack' = Push(QuickFrame(top.lo, i - 1),
                             <<[top EXCEPT !.p = i, !.at = "left"]>> \o Tail(stack))
            /\ pc' = "quick_sort"
            /\ UNCHANGED <<alg, i, j, key, min_idx, swapped, root, end_idx,
                           merged, k, ret, steps, result>>
       ELSE Fault

\* _quick(p + 1, hi)
QuickRight ==
    /\ pc = "quick_sort"
    /\ top.at = "left"
    /\ stack' = Push(QuickFrame(top.p + 1, top.hi),
                     <<[top EXCEPT !.at = "right"]>> \o Tail(stack))
    /\ UNCHANGED <<alg, arr, a, pc, i, j, key, min_idx, swapped, root, end_idx,
                   merged, k, ret, metrics, steps, result>>

\* the end of _quick's body
QuickExit ==
    /\ pc = "quick_sort"
    /\ top.at = "right"
    /\ PopFrame
    /\ UNCHANGED <<alg, arr, a, i, j, key, min_idx, swapped, root, end_idx,
                   merged, k, ret, metrics, steps, result>>

----------------------------------------------------------------------------
\* quick_sort_steps

\* _quick(l, r) with l < r: pivot = a[r]; i = l
QuickStepsEnter ==
    /\ pc = "quick_sort_steps"
    /\ top.at = "entry"
    /\ ~(top.lo >= top.hi)
    /\ IF Valid(a, {top.hi})
       THEN /\ key' = At(a, top.hi)
            /\ i' = top.lo
            /\ j' = top.lo
            /\ pc' = "quick_steps_partition"
            /\ UNCHANGED <<alg, arr, a, min_idx, swapped, root, end_idx,
                           merged, k, ret, stack, metrics, steps, result>>
       ELSE Fault

\* if l >= r: return
QuickStepsBase ==
    /\ pc = "quick_sort_steps"
    /\ top.at = "entry"
    /\ top.lo >= top.hi
    /\ PopFrame
    /\ UNCHANGED <<alg, arr, a, i, j, key, min_idx, swapped, root, end_idx,
                   merged, k, ret, metrics, steps, result>>

\* for j in range(l, r): _record(steps, a, [j, r]); if a[j] < pivot:
QuickStepsCompare ==
    /\ pc = "quick_steps_partition"
    /\ j < top.hi
    /\ IF Valid(a, {j})
       THEN /\ steps' = Record(steps, a, <<j, top.hi>>, "compare")
            /\ IF Key(At(a, j)) < Key(key)
               THEN /\ pc' = "quick_steps_swap" /\ UNCHANGED j
               ELSE /\ j' = j + 1 /\ UNCHANGED pc
            /\ UNCHANGED <<alg, arr, a, i, key, min_idx, swapped, root, end_idx,
                           merged, k, ret, stack, metrics, result>>
       ELSE Fault

\* a[i], a[j] = a[j], a[i]; _record(steps, a, [i, j]); i += 1
QuickStepsSwap ==
    /\ pc = "quick_steps_swap"
    /\ IF Valid(a, {i, j})
       THEN /\ SetA(Swap(a, i, j))
            /\ steps' = Record(steps, a', <<i, j>>, "exchange")
            /\ i' = i + 1
            /\ j' = j + 1
            /\ pc' = "quick_steps_partition"
            /\ UNCHANGED <<alg, key, min_idx, swapped, root, end_idx,
                           merged, k, ret, stack, metrics, result>>
       ELSE Fault

\* a[i], a[r] = a[r], a[i]; _record(steps, a, [i, r]); then _quick(l, i - 1)
QuickStepsPivotSwap ==
    /\ pc = "quick_steps_partition"
    /\ j >= top.hi
    /\ IF Valid(a, {i, top.hi})
       THEN /\ SetA(Swap(a, i, top.hi))
            /\ steps' = Record(steps, a', <<i, top.hi>>, "exchange")
            /\ stack' = Push(QuickFrame(top.lo, i - 1),
                             <<[top EXCEPT !.p = i, !.at = "left"]>> \o Tail(stack))
            /\ pc' = "quick_sort_steps"
            /\ UNCHANGED <<alg, i, j, key, min_idx, swapped, root, end_idx,
                           merged, k, ret, metrics, result>>
       ELSE Fault

\* _quick(i + 1, r)
QuickStepsRight ==
    /\ pc = "quick_sort_steps"
    /\ top.at = "left"
    /\ stack' = Push(QuickFrame(top.p + 1, top.hi),
                     <<[top EXCEPT !.at = "right"]>> \o Tail(stack))
    /\ UNCHANGED <<alg, arr, a, pc, i, j, key, min_idx, swapped, root, end_idx,
                   merged, k, ret, metrics, steps, result>>

\* the end of _quick's body
QuickStepsExit ==
    /\ pc = "quick_sort_steps"
    /\ top.at = "right"
    /\ PopFrame
    /\ UNCHANGED <<alg, arr, a, i, j, key, min_idx, swapped, root, end_idx,
                   merged, k, ret, metrics, steps, result>>

----------------------------------------------------------------------------
\* heap_sort

\* for start_idx in range((n - 2) // 2, -1, -1): _sift_down(start_idx, n - 1);
\* after the loop, the first end_idx of range(n - 1, 0, -1)
HeapBuild ==
    /\ pc = "heap_sort"
    /\ IF i > -1
       THEN /\ root' = i /\ end_idx' = n - 1
            /\ stack' = <<"heap_sort">>
            /\ pc' = "heap_sift"
            /\ UNCHANGED i
       ELSE /\ i' = n - 1
            /\ pc' = "heap_extract"
            /\ UNCHANGED <<root, end_idx, stack>>
    /\ UNCHANGED <<alg, arr, a, j, key, min_idx, swapped,
                   merged, k, ret, metrics, steps, result>>

\* for end_idx in range(n - 1, 0, -1): the root goes to end_idx;
\* _sift_down(0, end_idx - 1)
HeapExtract ==
    /\ pc = "heap_extract"
    /\ IF i > 0
       THEN IF Valid(a, {0, i})
            THEN /\ SetA(Swap(a, 0, i))
                 /\ metrics' = Exchanged(metrics)
                 /\ root' = 0 /\ end_idx' = i - 1
                 /\ stack' = <<"heap_extract">>
                 /\ pc' = "heap_sift"
                 /\ UNCHANGED <<alg, i, j, key, min_idx, swapped,
                                merged, k, ret, steps, result>>
            ELSE Fault
       ELSE /\ pc' = "return"
            /\ UNCHANGED <<alg, arr, a, i, j, key, min_idx, swapped, root, end_idx,
                           merged, k, ret, stack, metrics, steps, result>>

child == 2 * root + 1

\* The larger of root and its children within end_idx, as the two tests of the
\* loop body choose it.
SwapIdx ==
    LET first == IF Key(At(a, root)) < Key(At(a, child)) THEN child ELSE root
    IN  IF child + 1 <= end_idx /\ Key(At(a, first)) < Key(At(a, child + 1))
        THEN child + 1 ELSE first

\* The comparisons one level counts.
SiftCompared(m) ==
    [m EXCEPT !.comparisons = @ + (IF child + 1 <= end_idx THEN 2 ELSE 1)]

\* _sift_down returns to the loop that called it, which steps its index by -1.
SiftReturn ==
    /\ pc' = Head(stack)
    /\ stack' = <<>>
    /\ i' = i - 1

\* if child > end_idx: break
HeapSiftEnd ==
    /\ pc = "heap_sift"
    /\ child > end_idx
    /\ SiftReturn
    /\ UNCHANGED <<alg, arr, a, j, key, min_idx, swapped, root, end_idx,
                   merged, k, ret, metrics, steps, result>>

\* one level of the sift-down loop
HeapSift ==
    /\ pc = "heap_sift"
    /\ ~(child > end_idx)
    /\ IF Valid(a, {root, child} \cup (IF child + 1 <= end_idx THEN {child + 1} ELSE {}))
       THEN /\ min_idx' = SwapIdx
            /\ IF SwapIdx = root
               THEN /\ metrics' = SiftCompared(metrics)
                    /\ SiftReturn
                    /\ UNCHANGED <<arr, a, root>>
               ELSE /\ SetA(Swap(a, root, SwapIdx))
                    /\ metrics' = Exchanged(SiftCompared(metrics))
                    /\ root' = SwapIdx
                    /\ UNCHANGED <<pc, stack, i>>
            /\ UNCHANGED <<alg, j, key, swapped, end_idx,
                           merged, k, ret, steps, result>>
       ELSE Fault

----------------------------------------------------------------------------
\* merge_sort

\* a[:mid] and a[mid:]
Slice(s, from, to) == [p \in 1..(to - from) |-> s[from + p]]

\* _merge_sort(a) with len(a) > 1: mid = len(a) // 2; left = _merge_sort(a[:mid])
MergeEnter ==
    /\ pc = "merge_sort"
    /\ top.at = "entry"
    /\ ~(Len(top.a) <= 1)
    /\ stack' = Push(MergeFrame(Slice(top.a, 0, Len(top.a) \div 2)),
                     <<[top EXCEPT !.at = "left"]>> \o Tail(stack))
    /\ UNCHANGED <<alg, arr, a, pc, i, j, key, min_idx, swapped, root, end_idx,
                   merged, k, ret, metrics, steps, result>>

\* if len(a) <= 1: return list(a)
MergeBase ==
    /\ pc = "merge_sort"
    /\ top.at = "entry"
    /\ Len(top.a) <= 1
    /\ ret' = top.a
    /\ PopFrame
    /\ UNCHANGED <<alg, arr, a, i, j, key, min_idx, swapped, root, end_idx,
                   merged, k, metrics, steps, result>>

\* left is bound; right = _merge_sort(a[mid:])
MergeRight ==
    /\ pc = "merge_sort"
    /\ top.at = "left"
    /\ stack' = Push(MergeFrame(Slice(top.a, Len(top.a) \div 2, Len(top.a))),
                     <<[top EXCEPT !.left = ret, !.at = "right"]>> \o Tail(stack))
    /\ UNCHANGED <<alg, arr, a, pc, i, j, key, min_idx, swapped, root, end_idx,
                   merged, k, ret, metrics, steps, result>>

\* right is bound; _merge(left, right) starts: merged = []; i = j = 0
MergeStart ==
    /\ pc = "merge_sort"
    /\ top.at = "right"
    /\ stack' = <<[top EXCEPT !.right = ret, !.at = "merge"]>> \o Tail(stack)
    /\ merged' = <<>>
    /\ i' = 0 /\ j' = 0
    /\ pc' = "merge_merge"
    /\ UNCHANGED <<alg, arr, a, key, min_idx, swapped, root, end_idx,
                   k, ret, metrics, steps, result>>

\* if left[i] <= right[j]: the left element is taken
TakesLeft(l, r) == Key(l) <= Key(r)

\* while i < len(left) and j < len(right): one comparison, one append
MergeCompare ==
    /\ pc = "merge_merge"
    /\ i < Len(top.left) /\ j < Len(top.right)
    /\ IF Valid(top.left, {i}) /\ Valid(top.right, {j})
       THEN /\ IF TakesLeft(At(top.left, i), At(top.right, j))
               THEN /\ merged' = Append(merged, At(top.left, i))
                    /\ i' = i + 1 /\ UNCHANGED j
               ELSE /\ merged' = Append(merged, At(top.right, j))
                    /\ j' = j + 1 /\ UNCHANGED i
            /\ metrics' = Exchanged(Compared(metrics))
            /\ UNCHANGED <<alg, arr, a, pc, key, min_idx, swapped, root, end_idx,
                           k, ret, stack, steps, result>>
       ELSE Fault

\* while i < len(left): merged.append(left[i])
MergeDrainLeft ==
    /\ pc = "merge_merge"
    /\ ~(i < Len(top.left) /\ j < Len(top.right))
    /\ i < Len(top.left)
    /\ IF Valid(top.left, {i})
       THEN /\ merged' = Append(merged, At(top.left, i))
            /\ metrics' = Exchanged(metrics)
            /\ i' = i + 1
            /\ UNCHANGED <<alg, arr, a, pc, j, key, min_idx, swapped, root, end_idx,
                           k, ret, stack, steps, result>>
       ELSE Fault

\* the same loop, were the appended element not counted
MergeDrainRightBug ==
    /\ pc = "merge_merge"
    /\ ~(i < Len(top.left) /\ j < Len(top.right))
    /\ ~(i < Len(top.left))
    /\ j < Len(top.right)
    /\ merged' = Append(merged, At(top.right, j))
    /\ j' = j + 1
    /\ UNCHANGED <<alg, arr, a, pc, i, key, min_idx, swapped, root, end_idx,
                   k, ret, stack, metrics, steps, result>>

\* while j < len(right): merged.append(right[j])
MergeDrainRight ==
    /\ pc = "merge_merge"
    /\ ~(i < Len(top.left) /\ j < Len(top.right))
    /\ ~(i < Len(top.left))
    /\ j < Len(top.right)
    /\ IF Valid(top.right, {j})
       THEN /\ merged' = Append(merged, At(top.right, j))
            /\ metrics' = Exchanged(metrics)
            /\ j' = j + 1
            /\ UNCHANGED <<alg, arr, a, pc, i, key, min_idx, swapped, root, end_idx,
                           k, ret, stack, steps, result>>
       ELSE Fault

\* return merged, which _merge_sort returns in turn
MergeReturn ==
    /\ pc = "merge_merge"
    /\ ~(i < Len(top.left))
    /\ ~(j < Len(top.right))
    /\ ret' = merged
    /\ PopFrame
    /\ UNCHANGED <<alg, arr, a, i, j, key, min_idx, swapped, root, end_idx,
                   merged, k, metrics, steps, result>>

----------------------------------------------------------------------------
\* merge_sort_steps

\* _merge_sort(a, left, right) with right - left > 1: mid; _merge_sort(a, left, mid)
MergeStepsEnter ==
    /\ pc = "merge_sort_steps"
    /\ top.at = "entry"
    /\ ~(top.right - top.left <= 1)
    /\ LET mid == (top.left + top.right) \div 2
       IN  stack' = Push(MergeStepsFrame(top.left, mid),
                         <<[top EXCEPT !.mid = mid, !.at = "left"]>> \o Tail(stack))
    /\ UNCHANGED <<alg, arr, a, pc, i, j, key, min_idx, swapped, root, end_idx,
                   merged, k, ret, metrics, steps, result>>

\* if right - left <= 1: return
MergeStepsBase ==
    /\ pc = "merge_sort_steps"
    /\ top.at = "entry"
    /\ top.right - top.left <= 1
    /\ PopFrame
    /\ UNCHANGED <<alg, arr, a, i, j, key, min_idx, swapped, root, end_idx,
                   merged, k, ret, metrics, steps, result>>

\* _merge_sort(a, mid, right)
MergeStepsRight ==
    /\ pc = "merge_sort_steps"
    /\ top.at = "left"
    /\ stack' = Push(MergeStepsFrame(top.mid, top.right),
                     <<[top EXCEPT !.at = "right"]>> \o Tail(stack))
    /\ UNCHANGED <<alg, arr, a, pc, i, j, key, min_idx, swapped, root, end_idx,
                   merged, k, ret, metrics, steps, result>>

\* merged = []; i, j = left, mid
MergeStepsStart ==
    /\ pc = "merge_sort_steps"
    /\ top.at = "right"
    /\ stack' = <<[top EXCEPT !.at = "merge"]>> \o Tail(stack)
    /\ merged' = <<>>
    /\ i' = top.left /\ j' = top.mid
    /\ pc' = "merge_steps_merge"
    /\ UNCHANGED <<alg, arr, a, key, min_idx, swapped, root, end_idx,
                   k, ret, metrics, steps, result>>

\* while i < mid and j < right: _record(steps, a, [i, j]); one append
MergeStepsCompare ==
    /\ pc = "merge_steps_merge"
    /\ i < top.mid /\ j < top.right
    /\ IF Valid(a, {i, j})
       THEN /\ steps' = Record(steps, a, <<i, j>>, "compare")
            /\ IF Key(At(a, i)) <= Key(At(a, j))
               THEN /\ merged' = Append(merged, At(a, i))
                    /\ i' = i + 1 /\ UNCHANGED j
               ELSE /\ merged' = Append(merged, At(a, j))
                    /\ j' = j + 1 /\ UNCHANGED i
            /\ UNCHANGED <<alg, arr, a, pc, key, min_idx, swapped, root, end_idx,
                           k, ret, stack, metrics, result>>
       ELSE Fault

\* while i < mid: merged.append(a[i])
MergeStepsDrainLeft ==
    /\ pc = "merge_steps_merge"
    /\ ~(i < top.mid /\ j < top.right)
    /\ i < top.mid
    /\ IF Valid(a, {i})
       THEN /\ merged' = Append(merged, At(a, i))
            /\ i' = i + 1
            /\ UNCHANGED <<alg, arr, a, pc, j, key, min_idx, swapped, root, end_idx,
                           k, ret, stack, metrics, steps, result>>
       ELSE Fault

\* while j < right: merged.append(a[j])
MergeStepsDrainRight ==
    /\ pc = "merge_steps_merge"
    /\ ~(i < top.mid /\ j < top.right)
    /\ ~(i < top.mid)
    /\ j < top.right
    /\ IF Valid(a, {j})
       THEN /\ merged' = Append(merged, At(a, j))
            /\ j' = j + 1
            /\ UNCHANGED <<alg, arr, a, pc, i, key, min_idx, swapped, root, end_idx,
                           k, ret, stack, metrics, steps, result>>
       ELSE Fault

\* for k, val in enumerate(merged, start=left): the first k
MergeStepsWriteStart ==
    /\ pc = "merge_steps_merge"
    /\ ~(i < top.mid)
    /\ ~(j < top.right)
    /\ k' = top.left
    /\ pc' = "merge_steps_write"
    /\ UNCHANGED <<alg, arr, a, i, j, key, min_idx, swapped, root, end_idx,
                   merged, ret, stack, metrics, steps, result>>

\* a[k] = val; _record(steps, a, [k])
MergeStepsWrite ==
    /\ pc = "merge_steps_write"
    /\ k - top.left < Len(merged)
    /\ IF Valid(a, {k})
       THEN /\ SetA(Put(a, k, At(merged, k - top.left)))
            /\ steps' = Record(steps, a', <<k>>, "exchange")
            /\ k' = k + 1
            /\ UNCHANGED <<alg, pc, i, j, key, min_idx, swapped, root, end_idx,
                           merged, ret, stack, metrics, result>>
       ELSE Fault

\* merged is exhausted: _merge_sort returns
MergeStepsExit ==
    /\ pc = "merge_steps_write"
    /\ ~(k - top.left < Len(merged))
    /\ PopFrame
    /\ UNCHANGED <<alg, arr, a, i, j, key, min_idx, swapped, root, end_idx,
                   merged, k, ret, metrics, steps, result>>

----------------------------------------------------------------------------
\* The history a step leaves: most steps leave it as it is.
Keep == UNCHANGED <<hist, bench>>
\* _partition or _merge is entered: the metrics and the list of that instant.
Entered == hist' = [hist EXCEPT !.m0 = metrics, !.a0 = a] /\ UNCHANGED bench
\* The root was exchanged with a[end_idx] (not when the extraction loop ends).
Extracted ==
    /\ hist' = [hist EXCEPT !.extractions = @ + (IF a' # a THEN 1 ELSE 0)]
    /\ UNCHANGED bench
\* A level of _sift_down exchanged root and child (not when it returned).
Sifted ==
    /\ hist' = [hist EXCEPT !.exchanges = @ + (IF a' # a THEN 1 ELSE 0)]
    /\ UNCHANGED bench
\* The next call starts without history.
Forgotten == hist' = NoHist /\ UNCHANGED bench

Next ==
    \/ Call /\ Keep
    \/ Return /\ Keep
    \/ NextCall /\ Forgotten
    \/ BubbleOuter /\ Keep
    \/ BubbleInner /\ Keep
    \/ BubblePassEnd /\ Keep
    \/ BubbleStepsOuter /\ Keep
    \/ BubbleStepsCompare /\ Keep
    \/ BubbleStepsSwap /\ Keep
    \/ BubbleStepsPassEnd /\ Keep
    \/ InsertionOuter /\ Keep
    \/ InsertionScan /\ Keep
    \/ InsertionScanEnd /\ Keep
    \/ InsertionPlace /\ Keep
    \/ InsStepsOuter /\ Keep
    \/ InsStepsCompare /\ Keep
    \/ InsStepsShift /\ Keep
    \/ InsStepsPlace /\ Keep
    \/ SelectionOuter /\ Keep
    \/ SelectionInner /\ Keep
    \/ SelectionPassEnd /\ Keep
    \/ SelStepsOuter /\ Keep
    \/ SelStepsCompare /\ Keep
    \/ SelStepsNewMin /\ Keep
    \/ SelStepsPassEnd /\ Keep
    \/ QuickEnter /\ Entered
    \/ QuickBase /\ Keep
    \/ QuickPartition /\ Keep
    \/ QuickPivotSwap /\ Keep
    \/ QuickRight /\ Keep
    \/ QuickExit /\ Keep
    \/ QuickStepsEnter /\ Keep
    \/ QuickStepsBase /\ Keep
    \/ QuickStepsCompare /\ Keep
    \/ QuickStepsSwap /\ Keep
    \/ QuickStepsPivotSwap /\ Keep
    \/ QuickStepsRight /\ Keep
    \/ QuickStepsExit /\ Keep
    \/ HeapBuild /\ Keep
    \/ HeapExtract /\ Extracted
    \/ HeapSiftEnd /\ Keep
    \/ HeapSift /\ Sifted
    \/ MergeEnter /\ Keep
    \/ MergeBase /\ Keep
    \/ MergeRight /\ Keep
    \/ MergeStart /\ Entered
    \/ MergeCompare /\ Keep
    \/ MergeDrainLeft /\ Keep
    \/ MergeDrainRight /\ Keep
    \/ MergeReturn /\ Keep
    \/ MergeStepsEnter /\ Keep
    \/ MergeStepsBase /\ Keep
    \/ MergeStepsRight /\ Keep
    \/ MergeStepsStart /\ Keep
    \/ MergeStepsCompare /\ Keep
    \/ MergeStepsDrainLeft /\ Keep
    \/ MergeStepsDrainRight /\ Keep
    \/ MergeStepsWriteStart /\ Keep
    \/ MergeStepsWrite /\ Keep
    \/ MergeStepsExit /\ Keep

Spec == Init /\ [][Next]_vars

\* The interpreter runs the call to its end: no step of the body waits for anything.
FairSpec == Spec /\ WF_vars(Next)

----------------------------------------------------------------------------
\* run_benchmarks(algorithms, sizes, trials): the benchmark harness.

\* trials: the number of inputs generated for each size.
Trials == 2

\* The keys of the algorithms dict, in the order items() yields them.
Names == <<"bubble_sort", "merge_sort">>

\* The sizes argument.
SizeLists == {<<1, 2>>, <<2>>}

\* time.perf_counter() - start, by the harness's own clock.
Elapsed == 1

\* An absent value.
None == <<>>

\* The classes of the exceptions a call that runs out of memory or of stack raises.
Raisable == {"MemoryError", "RecursionError"}

\* except Exception: both classes derive from Exception.
CaughtBug(cls) == cls = "MemoryError"
Caught(cls) == cls \in {"MemoryError", "RecursionError"}

\* What func(arr) can do: raise, or return a value. A returned value is a pair
\* (pair = TRUE) or not, its second component a dict (dict = TRUE) or not, and the
\* dict holds any of the keys comparisons, swaps, time_seconds.
MetricsDicts ==
    { [comparisons |-> 0, swaps |-> 1, time_seconds |-> 2],
      [comparisons |-> 2, swaps |-> 1, time_seconds |-> 2],
      [x \in {} |-> 0] }
Outcomes ==
    [kind : {"raise"}, cls : Raisable]
      \cup [kind : {"return"}, pair : {TRUE}, dict : {TRUE}, metrics : MetricsDicts]
      \cup [kind : {"return"}, pair : {FALSE}]

\* metrics.get(field, None), and the test isinstance(..., int) or (int, float) on it
Get(m, field) == IF field \in DOMAIN m THEN <<m[field]>> ELSE None
IsNumber(v) == v # None

RECURSIVE Sum(_)
Sum(s) == IF s = <<>> THEN 0 ELSE s[1] + Sum(Tail(s))

RECURSIVE GCD(_, _)
GCD(x, y) == IF y = 0 THEN x ELSE GCD(y, x % y)

\* float(sum(xs) / len(xs)) if xs else None: the quotient as a fraction in lowest
\* terms.
Average(xs) ==
    IF xs = <<>> THEN None
    ELSE LET g == GCD(Len(xs), Sum(xs)) IN <<Sum(xs) \div g, Len(xs) \div g>>

BenchIdle ==
    /\ alg = "none"
    /\ arr = <<>>
    /\ a = <<>>
    /\ pc = "idle"
    /\ i = 0 /\ j = 0 /\ key = <<0, 0>> /\ min_idx = 0
    /\ swapped = FALSE /\ root = 0 /\ end_idx = 0
    /\ merged = <<>> /\ k = 0 /\ ret = <<>> /\ stack = <<>>
    /\ metrics = MakeMetrics
    /\ steps = <<>>
    /\ result = <<>>
    /\ hist = NoHist

\* The state at the head of the loop over algorithms.items(); ai, si and ti count
\* the algorithms, sizes and trial inputs the loops have consumed, and log keeps what
\* each call of the current (algorithm, size) did.
BenchInit ==
    /\ BenchIdle
    /\ \E sizes \in SizeLists :
         bench = [pc |-> "algorithms", sizes |-> sizes, ai |-> 0, si |-> 0, ti |-> 0,
                  times |-> <<>>, comps |-> <<>>, swaps |-> <<>>,
                  has_comps |-> FALSE, has_swaps |-> FALSE,
                  alg_results |-> <<>>, results |-> [x \in {} |-> <<>>],
                  log |-> <<>>]

BenchUnchanged ==
    UNCHANGED <<alg, arr, a, pc, i, j, key, min_idx, swapped, root, end_idx,
                merged, k, ret, stack, metrics, steps, result, hist>>

\* for name, func in algorithms.items(): alg_results = []
BenchAlgorithm ==
    /\ bench.pc = "algorithms"
    /\ bench.ai < Len(Names)
    /\ bench' = [bench EXCEPT !.pc = "sizes", !.alg_results = <<>>, !.si = 0]
    /\ BenchUnchanged

\* the dict is exhausted: return results
BenchReturn ==
    /\ bench.pc = "algorithms"
    /\ ~(bench.ai < Len(Names))
    /\ bench' = [bench EXCEPT !.pc = "returned"]
    /\ BenchUnchanged

\* for n in sizes: the empty accumulators
BenchSize ==
    /\ bench.pc = "sizes"
    /\ bench.si < Len(bench.sizes)
    /\ bench' = [bench EXCEPT !.pc = "trials", !.times = <<>>, !.comps = <<>>,
                              !.swaps = <<>>, !.has_comps = FALSE,
                              !.has_swaps = FALSE, !.ti = 0, !.log = <<>>]
    /\ BenchUnchanged

\* sizes is exhausted: results[name] = alg_results
BenchAlgorithmEnd ==
    /\ bench.pc = "sizes"
    /\ ~(bench.si < Len(bench.sizes))
    /\ bench' = [bench EXCEPT
                   !.pc = "algorithms",
                   !.results = [x \in DOMAIN bench.results \cup {Names[bench.ai + 1]} |->
                                  IF x = Names[bench.ai + 1] THEN bench.alg_results
                                  ELSE bench.results[x]],
                   !.ai = @ + 1]
    /\ BenchUnchanged

\* The accumulators after a call that returned out.
Accumulated(b, out) ==
    IF out.pair /\ out.dict
    THEN LET tval  == Get(out.metrics, "time_seconds")
             comp  == Get(out.metrics, "comparisons")
             swapv == Get(out.metrics, "swaps")
         IN  [b EXCEPT
                !.times = Append(@, IF IsNumber(tval) THEN tval[1] ELSE Elapsed),
                !.comps = IF IsNumber(comp) THEN Append(@, comp[1]) ELSE @,
                !.has_comps = IF IsNumber(comp) THEN TRUE ELSE @,
                !.swaps = IF IsNumber(swapv) THEN Append(@, swapv[1]) ELSE @,
                !.has_swaps = IF IsNumber(swapv) THEN TRUE ELSE @]
    ELSE [b EXCEPT !.times = Append(@, Elapsed)]

\* What the log keeps of a call: that it raised, or the value it returned.
Logged(o) == IF o.kind = "raise" THEN [kind |-> "raise"] ELSE o

\* for trial_input in inputs_by_size[n]: one call of func on a copy of the input.
\* An exception the handler catches skips the trial; any other leaves the function.
BenchTrial ==
    /\ bench.pc = "trials"
    /\ bench.ti < Trials
    /\ \E o \in Outcomes :
         LET b == [bench EXCEPT !.ti = @ + 1, !.log = Append(@, Logged(o))]
         IN  bench' = IF o.kind = "raise"
                      THEN IF Caught(o.cls) THEN b ELSE [b EXCEPT !.pc = "raised"]
                      ELSE Accumulated(b, o)
    /\ BenchUnchanged

\* the inputs are exhausted: the averages, and the entry of this size
BenchSizeEnd ==
    /\ bench.pc = "trials"
    /\ ~(bench.ti < Trials)
    /\ bench' = [bench EXCEPT
                   !.pc = "sizes",
                   !.alg_results =
                       Append(@, [n |-> bench.sizes[bench.si + 1],
                                  time_seconds |-> Average(bench.times),
                                  comparisons |-> Average(bench.comps),
                                  swaps |-> Average(bench.swaps)]),
                   !.si = @ + 1,
                   !.log = <<>>]
    /\ BenchUnchanged

BenchNext ==
    \/ BenchAlgorithm
    \/ BenchReturn
    \/ BenchSize
    \/ BenchAlgorithmEnd
    \/ BenchTrial
    \/ BenchSizeEnd

BenchSpec == BenchInit /\ [][BenchNext]_vars

----------------------------------------------------------------------------
\* The properties

Done == pc = "done"
Last(s) == s[Len(s)]
Range(s) == {s[p] : p \in 1..Len(s)}
Count(s, v) == Cardinality({p \in 1..Len(s) : s[p] = v})
NonDecreasing(s) == \A p \in 1..(Len(s) - 1) : s[p] <= s[p + 1]
SameMultiset(s, t) == \A v \in Range(s) \cup Range(t) : Count(s, v) = Count(t, v)
CountKind(st, kind) == Cardinality({p \in 1..Len(st) : st[p].kind = kind})
\* The first component of step p, as a reader of the trace sees it now.
SnapshotAt(p) == Snapshot(steps[p])

\* C1: whatever sort was called, of either engine, and whatever the input, the list
\* it returns is in non-decreasing order and holds the input's values, each as
\* often as the input does.
C1_SortedPermutation ==
    Done => /\ NonDecreasing(Keys(result))
            /\ SameMultiset(Keys(result), arr)
            /\ Len(result) = Len(arr)

C1_Witness ==
    /\ Done
    /\ alg = "quick_sort_steps"
    /\ arr = <<3, 1, 2, 1>>
    /\ Keys(result) = <<1, 1, 2, 3>>

\* C2: no step of any sort of either engine changes the caller's list: the writes
\* go to the working copy.
C2_InputUntouched == [][arr' = arr]_vars

C2_Witness ==
    /\ Done
    /\ alg = "heap_sort"
    /\ Keys(result) # arr

\* C3: when a traced sort has returned, the number of its comparison steps equals
\* the comparisons the metrics counterpart counted on the same input.
C3_ComparisonParity ==
    (Done /\ alg \in TracedSorts) =>
        CountKind(steps, "compare") = metrics.comparisons

\* C4: when a traced sort has returned, the number of its exchange steps equals the
\* swaps the metrics counterpart counted on the same input.
C4_ExchangeParity ==
    (Done /\ alg \in TracedSorts) =>
        CountKind(steps, "exchange") = metrics.swaps

C4_Witness ==
    /\ Done
    /\ alg = "merge_sort_steps"
    /\ arr = <<2, 1, 3>>
    /\ metrics.swaps = 5
    /\ CountKind(steps, "exchange") = 5

\* C5: the trace a traced sort returns has at least two steps; the first has no
\* highlights and shows the input, the last has no highlights and shows the list
\* returned.
C5_TraceShape ==
    (Done /\ alg \in TracedSorts) =>
        /\ Len(steps) >= 2
        /\ steps[1].hl = <<>>
        /\ SnapshotAt(1) = arr
        /\ Last(steps).hl = <<>>
        /\ SnapshotAt(Len(steps)) = Keys(result)

C5_Witness ==
    /\ Done
    /\ alg = "insertion_sort_steps"
    /\ arr = <<>>
    /\ Len(steps) = 2

\* C6 as stated: bubble_sort([5, 3, 8, 3, 1]) returns [1, 3, 3, 5, 8] with 10
\* comparisons and 4 swaps.
C6_AsStated ==
    (Done /\ alg = "bubble_sort" /\ arr = Example) =>
        /\ Keys(result) = <<1, 3, 3, 5, 8>>
        /\ metrics.comparisons = 10
        /\ metrics.swaps = 4

\* C6, amended: bubble_sort([5, 3, 8, 3, 1]) returns [1, 3, 3, 5, 8] with 10
\* comparisons and 7 swaps.
C6_Example ==
    (Done /\ alg = "bubble_sort" /\ arr = Example) =>
        /\ Keys(result) = <<1, 3, 3, 5, 8>>
        /\ metrics.comparisons = 10
        /\ metrics.swaps = 7

C6_Witness ==
    /\ Done
    /\ alg = "bubble_sort"
    /\ arr = Example
    /\ metrics.swaps = 7

\* C7: in the list bubble_sort, insertion_sort or merge_sort returns, two elements
\* with equal keys stand in the order they had in the input.
C7_Stable ==
    (Done /\ alg \in {"bubble_sort", "insertion_sort", "merge_sort"}) =>
        \A p, q \in 1..Len(result) :
            (p < q /\ Key(result[p]) = Key(result[q])) => result[p][2] < result[q][2]

C7_Witness ==
    /\ Done
    /\ alg = "merge_sort"
    /\ arr = <<2, 1, 2, 1>>
    /\ result = <<<<1, 2>>, <<1, 4>>, <<2, 1>>, <<2, 3>>>>

\* C8: a step of a traced sort only appends to the trace: every step recorded
\* before still shows the same list and highlights, and a step just appended shows
\* the working list as it is at that instant.
C8_TraceAppendOnly ==
    [][/\ Len(steps') >= Len(steps)
       /\ \A p \in 1..Len(steps) :
            /\ SnapshotAt(p)' = SnapshotAt(p)
            /\ steps'[p].hl = steps[p].hl
       /\ Len(steps') > Len(steps) =>
            /\ Len(steps') = Len(steps) + 1
            /\ SnapshotAt(Len(steps))' = Keys(a')]_vars

C8_Witness ==
    /\ alg = "merge_sort_steps"
    /\ pc = "merge_steps_write"
    /\ Len(steps) >= 3
    /\ \E p \in 1..Len(steps) : steps[p].snap # Keys(a)

\* C9: a metrics sort given an empty or a one-element list returns an equal list
\* and has counted no comparison and no swap.
C9_TrivialInputs ==
    (Done /\ alg \in MetricsSorts /\ Len(arr) <= 1) =>
        /\ Keys(result) = arr
        /\ metrics = [comparisons |-> 0, swaps |-> 0]

C9_Witness ==
    /\ Done
    /\ alg = "heap_sort"
    /\ Len(arr) = 1
    /\ metrics.comparisons = 0

\* C10: no sort ever reads or writes outside a list, and every call that is entered
\* returns.
C10_Total ==
    /\ [](pc # "fault")
    /\ (pc = "call") ~> (pc = "done")

C10_Witness ==
    /\ Done
    /\ alg = "quick_sort_steps"
    /\ Len(arr) >= 3
    /\ Len(steps) > 6

\* The comparisons of passes 0..q of a bubble sort of len elements: len - p - 1 each.
RECURSIVE PassSum(_, _)
PassSum(len, q) == IF q < 0 THEN 0 ELSE (len - q - 1) + PassSum(len, q - 1)

\* C11: in bubble_sort every adjacent-pair test counts one comparison and every
\* exchange one swap, nothing else counts; pass i makes n - i - 1 comparisons; a new
\* pass starts only after a pass that swapped, and the sort returns after the first
\* pass without a swap with the comparisons of the passes run (n - 1 and no swap
\* when the input was already sorted).
C11_BubbleCounts ==
    /\ [](alg = "bubble_sort" =>
            /\ pc = "bubble_inner" =>
                 /\ j <= n - i - 1
                 /\ metrics.comparisons = PassSum(n, i - 1) + j
            /\ (pc = "bubble_sort" /\ i > 0) => swapped
            /\ (Done /\ n >= 1) =>
                 /\ ~swapped
                 /\ metrics.comparisons = PassSum(n, i)
            /\ (Done /\ n >= 1 /\ NonDecreasing(arr)) =>
                 /\ metrics.comparisons = n - 1
                 /\ metrics.swaps = 0)
    /\ [][alg = "bubble_sort" =>
            IF pc = "bubble_inner" /\ j' = j + 1
            THEN /\ metrics'.comparisons = metrics.comparisons + 1
                 /\ metrics'.swaps = metrics.swaps + (IF a' # a THEN 1 ELSE 0)
                 /\ a' # a => a' = Swap(a, j, j + 1)
            ELSE metrics' = metrics /\ (pc \notin {"call", "done"} => a' = a)]_vars

C11_Witness ==
    /\ Done
    /\ alg = "bubble_sort"
    /\ arr = <<1, 3, 2, 3>>
    /\ i = 1
    /\ metrics = [comparisons |-> 5, swaps |-> 1]

\* The pairs of positions of s that are out of order.
Inversions(s) ==
    Cardinality({pq \in (1..Len(s)) \X (1..Len(s)) : pq[1] < pq[2] /\ s[pq[1]] > s[pq[2]]})
\* The positions after the first whose element is not below every element before
\* it: the insertions whose scan meets an element that is not greater than the key.
MeetsNotGreater(s) ==
    Cardinality({q \in 2..Len(s) : \E p \in 1..(q - 1) : s[p] <= s[q]})

\* C12: in insertion_sort a test a[j] > key that holds counts one comparison and one
\* swap and shifts one element; a test that fails counts one comparison only and
\* ends the scan; a scan that ends at j = -1 and the placement of the key count
\* nothing.  So the swaps returned are the inversions of the input, and the
\* comparisons are the swaps plus the scans a failing test ended.
C12_InsertionCounts ==
    /\ []((Done /\ alg = "insertion_sort") =>
            /\ metrics.swaps = Inversions(arr)
            /\ metrics.comparisons = metrics.swaps + MeetsNotGreater(arr))
    /\ [][alg = "insertion_sort" =>
            IF pc = "insertion_scan" /\ j >= 0
            THEN IF Key(At(a, j)) > Key(key)
                 THEN /\ metrics'.comparisons = metrics.comparisons + 1
                      /\ metrics'.swaps = metrics.swaps + 1
                      /\ a' = Put(a, j + 1, At(a, j))
                      /\ j' = j - 1
                      /\ pc' = pc
                 ELSE /\ metrics'.comparisons = metrics.comparisons + 1
                      /\ metrics'.swaps = metrics.swaps
                      /\ a' = a
                      /\ pc' = "insertion_place"
            ELSE metrics' = metrics]_vars

C12_Witness ==
    /\ Done
    /\ alg = "insertion_sort"
    /\ arr = <<2, 1, 3, 1>>
    /\ metrics = [comparisons |-> 5, swaps |-> 3]

\* quick_sort: _partition has just returned p to the call that is now in its first
\* inner call.
Partitioned ==
    /\ alg = "quick_sort"
    /\ pc = "quick_sort"
    /\ Len(stack) >= 2
    /\ top.at = "entry"
    /\ stack[2].at = "left"

\* The elements of s[lo..hi-1] below s[hi].
BelowPivot(s, lo, hi) ==
    Cardinality({q \in lo..(hi - 1) : Key(At(s, q)) < Key(At(s, hi))})

\* C13: when _partition(lo, hi) has returned p, lo < hi, the pivot was a[hi] as it
\* was on entry and stands at p, the call added hi - lo comparisons and one swap
\* more than the elements of a[lo..hi-1] below the pivot, a[lo..p-1] is below a[p]
\* and a[p+1..hi] is not; and the steps of _quick itself, among them the calls on
\* subranges of at most one element, count nothing and move nothing.
C13_Partition ==
    /\ [](Partitioned =>
            LET f == stack[2] IN
            /\ f.lo < f.hi
            /\ key = At(hist.a0, f.hi)
            /\ At(a, f.p) = key
            /\ metrics.comparisons = hist.m0.comparisons + (f.hi - f.lo)
            /\ metrics.swaps = hist.m0.swaps + 1 + BelowPivot(hist.a0, f.lo, f.hi)
            /\ \A q \in f.lo..(f.p - 1) : Key(At(a, q)) < Key(At(a, f.p))
            /\ \A q \in (f.p + 1)..f.hi : Key(At(a, q)) >= Key(At(a, f.p)))
    /\ [][(alg = "quick_sort" /\ pc = "quick_sort") =>
            /\ metrics' = metrics
            /\ a' = a
            /\ (top.at = "entry" /\ top.lo < top.hi) => pc' = "quick_partition"
            /\ (top.at = "entry" /\ ~(top.lo < top.hi)) => stack' = Tail(stack)]_vars

C13_Witness ==
    /\ Partitioned
    /\ arr = <<1, 2>>
    /\ stack[2].p = stack[2].hi
    /\ hist.m0.swaps = 0
    /\ metrics = [comparisons |-> 1, swaps |-> 2]

\* s[0..last] is a zero-based max-heap.
MaxHeap(s, last) ==
    \A q \in 1..last : Key(At(s, (q - 1) \div 2)) >= Key(At(s, q))
\* s[last+1..] is sorted and holds the largest elements: none before is greater.
SortedSuffix(s, last) ==
    \A q \in (last + 1)..(Len(s) - 1) :
        \A p \in 0..(q - 1) : Key(At(s, p)) <= Key(At(s, q))

\* C14: in heap_sort a level of _sift_down counts no comparison when root has no
\* child within end_idx, one when only the left child is within it and two when both
\* are, and nothing else counts a comparison; the swaps are the root extractions plus
\* the exchanges of _sift_down, with n - 1 extractions in all; and whenever the
\* extraction loop is at its head, after the build phase and after each extraction,
\* a[0..end] is a max-heap and the rest is sorted and holds the largest elements.
C14_HeapCounts ==
    /\ [](alg = "heap_sort" =>
            /\ metrics.swaps = hist.extractions + hist.exchanges
            /\ pc = "heap_extract" =>
                 /\ MaxHeap(a, i)
                 /\ SortedSuffix(a, i)
                 /\ hist.extractions = (n - 1) - i
            /\ (Done /\ n >= 1) => hist.extractions = n - 1)
    /\ [][alg = "heap_sort" =>
            metrics'.comparisons = metrics.comparisons +
                (IF pc # "heap_sift" \/ child > end_idx THEN 0
                 ELSE IF child + 1 <= end_idx THEN 2 ELSE 1)]_vars

C14_Witness ==
    /\ alg = "heap_sort"
    /\ pc = "heap_extract"
    /\ arr = <<1, 2, 3, 2>>
    /\ i = 2
    /\ hist.extractions = 1
    /\ hist.exchanges = 1
    /\ metrics.swaps = 2

\* merge_sort: _merge(left, right) has appended its last element.
Merged ==
    /\ alg = "merge_sort"
    /\ pc = "merge_merge"
    /\ ~(i < Len(top.left))
    /\ ~(j < Len(top.right))

Min(x, y) == IF x <= y THEN x ELSE y

\* The elements all the merges of a merge sort of len elements append.
RECURSIVE MergeMoves(_)
MergeMoves(len) ==
    IF len <= 1 THEN 0
    ELSE MergeMoves(len \div 2) + MergeMoves(len - len \div 2) + len

\* C15: when _merge has merged runs of l and r elements, both at least 1, it has
\* added l + r to the swaps and between min(l, r) and l + r - 1 to the comparisons;
\* the steps of _merge_sort itself, among them the calls on lists of at most one
\* element, count nothing; so the swaps returned depend on the length of the input
\* alone.
C15_MergeCounts ==
    /\ [](Merged =>
            LET l == Len(top.left)
                r == Len(top.right)
                c == metrics.comparisons - hist.m0.comparisons
            IN  /\ l >= 1 /\ r >= 1
                /\ Len(merged) = l + r
                /\ metrics.swaps = hist.m0.swaps + l + r
                /\ Min(l, r) <= c /\ c <= l + r - 1)
    /\ []((Done /\ alg = "merge_sort") => metrics.swaps = MergeMoves(Len(arr)))
    /\ [][(alg = "merge_sort" /\ pc = "merge_sort") => metrics' = metrics]_vars

C15_Witness ==
    /\ Merged
    /\ arr = <<1, 2, 3>>
    /\ Len(top.left) = 1
    /\ Len(top.right) = 2
    /\ metrics.comparisons = hist.m0.comparisons + 1
    /\ metrics.swaps = 5

\* The values a field contributed in the calls of log that returned: what the
\* averages of an (algorithm, size) are to be taken over.
RECURSIVE Supplied(_, _)
Supplied(log, field) ==
    IF log = <<>> THEN <<>>
    ELSE LET o == log[Len(log)]
             before == Supplied(SubSeq(log, 1, Len(log) - 1), field)
             v == IF o.kind = "raise" THEN None
                  ELSE IF o.pair /\ o.dict THEN Get(o.metrics, field)
                  ELSE None
         IN  IF o.kind = "raise" THEN before
             ELSE IF field = "time_seconds"
                  THEN Append(before, IF v # None THEN v[1] ELSE Elapsed)
                  ELSE IF v # None THEN Append(before, v[1]) ELSE before

\* The calls of log that raised.
Raises(log) == {p \in 1..Len(log) : log[p].kind = "raise"}

\* C16: a call that raises costs its own trial only. run_benchmarks is never left
\* by the exception; the accumulators hold what the calls that returned supplied
\* and nothing for one that raised; every (algorithm, size) runs all its trials
\* whatever the earlier ones did, and its entry averages the values of the trials
\* that returned, None where no trial supplied the field; the result has one entry
\* for each algorithm and each size, in the order of sizes.
C16_FailedTrialSkipped ==
    /\ [](bench.pc # "raised")
    /\ [](bench.pc = "trials" =>
            /\ Len(bench.log) = bench.ti
            /\ bench.times = Supplied(bench.log, "time_seconds")
            /\ bench.comps = Supplied(bench.log, "comparisons")
            /\ bench.swaps = Supplied(bench.log, "swaps")
            /\ Len(bench.times) = bench.ti - Cardinality(Raises(bench.log)))
    /\ [][(bench.pc = "trials" /\ bench'.pc = "sizes") =>
            LET e == bench'.alg_results[Len(bench'.alg_results)]
                mean(field) ==
                    LET xs == Supplied(bench.log, field)
                    IN  IF xs = <<>> THEN None
                        ELSE CHOOSE q \in (0..Sum(xs)) \X (1..Len(xs)) :
                               /\ q[1] * Len(xs) = Sum(xs) * q[2]
                               /\ \A r \in (0..Sum(xs)) \X (1..Len(xs)) :
                                    r[1] * Len(xs) = Sum(xs) * r[2] => q[2] <= r[2]
            IN  /\ Len(bench.log) = Trials
                /\ e.n = bench.sizes[bench.si + 1]
                /\ e.time_seconds = mean("time_seconds")
                /\ e.comparisons = mean("comparisons")
                /\ e.swaps = mean("swaps")
                /\ bench'.alg_results = Append(bench.alg_results, e)]_vars
    /\ [](bench.pc = "returned" =>
            /\ DOMAIN bench.results = Range(Names)
            /\ \A x \in Range(Names) :
                 /\ Len(bench.results[x]) = Len(bench.sizes)
                 /\ \A p \in 1..Len(bench.sizes) :
                      bench.results[x][p].n = bench.sizes[p])

\* The first trial of the first size raised, the second returned metrics: the
\* entry averages the second alone, and the run went on to the end.
C16_Witness ==
    /\ bench.pc = "returned"
    /\ bench.sizes = <<1, 2>>
    /\ bench.results["bubble_sort"][1] =
         [n |-> 1, time_seconds |-> <<2, 1>>, comparisons |-> <<0, 1>>,
          swaps |-> <<1, 1>>]
    /\ bench.results["bubble_sort"][2] =
         [n |-> 2, time_seconds |-> None, comparisons |-> None, swaps |-> None]
    /\ bench.results["merge_sort"][1].comparisons = <<1, 1>>

====
